---- MODULE Spec2Model ----
(***************************************************************************)
(* A model of the Kaggle MCP server's call-tool handler (src/src/index.ts, *)
(* lines 1-668): the dispatcher, the argument vectors it builds, the local *)
(* staging of create_notebook and the shaping of results and errors.       *)
(*                                                                         *)
(* JavaScript strings are sequences of tokens (a token is a TLA+ string    *)
(* that stands for a run of characters), so that concatenation, quoting    *)
(* and "starts with" are computed and not assumed.  JavaScript values are  *)
(* records tagged by their typeof.                                         *)
(***************************************************************************)
EXTENDS Integers, Sequences, FiniteSets, TLC

(***************************************************************************)
(* Bounds of the model.                                                    *)
(***************************************************************************)
NumSlots == 2      \* request slots of the transport
MaxCalls == 1      \* call-tool requests delivered in one behaviour
MaxTemp == 2       \* names mkdtemp can draw from
MaxClock == 1      \* largest value Date.now() takes

Calls == 1..NumSlots

(***************************************************************************)
(* JavaScript values.                                                      *)
(***************************************************************************)
Undefined == [t |-> "undefined"]
Null == [t |-> "null"]
JStr(s) == [t |-> "string", s |-> s]
JNum(n) == [t |-> "number", n |-> n]
JBool(b) == [t |-> "boolean", b |-> b]
JArr(items) == [t |-> "array", items |-> items]
JObj(members) == [t |-> "object", members |-> members]
EmptyObj == [k \in {} |-> Undefined]

\* ToBoolean: what `!v`, `v || d` and `if (v)` test
Truthy(v) ==
    CASE v.t = "undefined" -> FALSE
      [] v.t = "null" -> FALSE
      [] v.t = "string" -> Len(v.s) > 0
      [] v.t = "number" -> v.n # 0
      [] v.t = "boolean" -> v.b
      [] OTHER -> TRUE

\* v || d
OrElse(v, d) == IF Truthy(v) THEN v ELSE d

\* args.k of a parameters object: undefined when the key is absent
Get(args, k) == IF k \in DOMAIN args THEN args[k] ELSE Undefined

\* typeof v === "string"
IsString(v) == v.t = "string"

RECURSIVE JoinWith(_, _)
\* Array.prototype.join over texts
JoinWith(texts, sep) ==
    IF Len(texts) = 0 THEN <<>>
    ELSE IF Len(texts) = 1 THEN texts[1]
    ELSE texts[1] \o sep \o JoinWith(Tail(texts), sep)

RECURSIVE ToStr(_)
\* String(v), as a template literal `${v}` and join() compute it
ToStr(v) ==
    CASE v.t = "undefined" -> <<"undefined">>
      [] v.t = "null" -> <<"null">>
      [] v.t = "string" -> v.s
      [] v.t = "number" -> <<ToString(v.n)>>
      [] v.t = "boolean" -> IF v.b THEN <<"true">> ELSE <<"false">>
      [] v.t = "array" ->
           JoinWith([i \in 1..Len(v.items) |->
                        IF v.items[i].t \in {"undefined", "null"} THEN <<>>
                        ELSE ToStr(v.items[i])], <<",">>)
      [] OTHER -> <<"[object Object]">>

\* one element of args.join(" "): undefined and null give the empty string
JoinElem(v) == IF v.t \in {"undefined", "null"} THEN <<>> ELSE ToStr(v)

(***************************************************************************)
(* JSON.parse over token sequences.                                        *)
(***************************************************************************)
Quote == "\""
WhiteSpace == {" ", "\n", "  "}
Digits == {ToString(n) : n \in 0..9}
DigitValue(tok) == CHOOSE n \in 0..9 : ToString(n) = tok

ParseFail == [ok |-> FALSE, v |-> Undefined, rest |-> <<>>]
ParseOk(v, rest) == [ok |-> TRUE, v |-> v, rest |-> rest]

RECURSIVE SkipWs(_)
SkipWs(toks) ==
    IF Len(toks) > 0 /\ Head(toks) \in WhiteSpace THEN SkipWs(Tail(toks)) ELSE toks

RECURSIVE StringBody(_, _)
\* the tokens up to the closing quote
StringBody(toks, acc) ==
    IF Len(toks) = 0 THEN ParseFail
    ELSE IF Head(toks) = Quote THEN ParseOk(JStr(acc), Tail(toks))
    ELSE IF Head(toks) = "\n" THEN ParseFail
    ELSE StringBody(Tail(toks), Append(acc, Head(toks)))

RECURSIVE ParseValue(_)
RECURSIVE ParseElems(_, _)
RECURSIVE ParseMembers(_, _)

ParseValue(toks0) ==
    LET toks == SkipWs(toks0) IN
    IF Len(toks) = 0 THEN ParseFail
    ELSE LET h == Head(toks)
             r == Tail(toks)
         IN CASE h = Quote -> StringBody(r, <<>>)
              [] h \in Digits -> ParseOk(JNum(DigitValue(h)), r)
              [] h = "null" -> ParseOk(Null, r)
              [] h = "true" -> ParseOk(JBool(TRUE), r)
              [] h = "false" -> ParseOk(JBool(FALSE), r)
              [] h = "[" ->
                   IF Len(SkipWs(r)) > 0 /\ Head(SkipWs(r)) = "]"
                   THEN ParseOk(JArr(<<>>), Tail(SkipWs(r)))
                   ELSE ParseElems(r, <<>>)
              [] h = "{" ->
                   IF Len(SkipWs(r)) > 0 /\ Head(SkipWs(r)) = "}"
                   THEN ParseOk(JObj(<<>>), Tail(SkipWs(r)))
                   ELSE ParseMembers(r, <<>>)
              [] OTHER -> ParseFail

\* value ("," value)* "]"
ParseElems(toks, acc) ==
    LET e == ParseValue(toks) IN
    IF ~e.ok THEN ParseFail
    ELSE LET r == SkipWs(e.rest) IN
         IF Len(r) = 0 THEN ParseFail
         ELSE IF Head(r) = "]" THEN ParseOk(JArr(Append(acc, e.v)), Tail(r))
         ELSE IF Head(r) = "," THEN ParseElems(Tail(r), Append(acc, e.v))
         ELSE ParseFail

\* string ":" value ("," string ":" value)* "}"
ParseMembers(toks0, acc) ==
    LET toks == SkipWs(toks0) IN
    IF Len(toks) = 0 \/ Head(toks) # Quote THEN ParseFail
    ELSE LET k == StringBody(Tail(toks), <<>>) IN
         IF ~k.ok THEN ParseFail
         ELSE LET r1 == SkipWs(k.rest) IN
              IF Len(r1) = 0 \/ Head(r1) # ":" THEN ParseFail
              ELSE LET e == ParseValue(Tail(r1)) IN
                   IF ~e.ok THEN ParseFail
                   ELSE LET r == SkipWs(e.rest)
                            m == Append(acc, [k |-> k.v.s, v |-> e.v])
                        IN IF Len(r) = 0 THEN ParseFail
                           ELSE IF Head(r) = "}" THEN ParseOk(JObj(m), Tail(r))
                           ELSE IF Head(r) = "," THEN ParseMembers(Tail(r), m)
                           ELSE ParseFail

\* JSON.parse(text): ok is FALSE where JSON.parse throws
JSONParse(text) ==
    LET p == ParseValue(text) IN
    IF p.ok /\ Len(SkipWs(p.rest)) = 0 THEN p ELSE ParseFail

(***************************************************************************)
(* JSON.stringify(v, null, 2).                                             *)
(***************************************************************************)
Indent == "  "

RECURSIVE Stringify(_, _)
RECURSIVE StringifyItems(_, _)
RECURSIVE StringifyMembers(_, _)

Stringify(v, ind) ==
    CASE v.t = "string" -> <<Quote>> \o v.s \o <<Quote>>
      [] v.t = "number" -> <<ToString(v.n)>>
      [] v.t = "boolean" -> IF v.b THEN <<"true">> ELSE <<"false">>
      [] v.t = "null" -> <<"null">>
      [] v.t = "array" ->
           IF Len(v.items) = 0 THEN <<"[", "]">>
           ELSE <<"[", "\n">> \o StringifyItems(v.items, Append(ind, Indent))
                \o <<"\n">> \o ind \o <<"]">>
      [] v.t = "object" ->
           IF Len(v.members) = 0 THEN <<"{", "}">>
           ELSE <<"{", "\n">> \o StringifyMembers(v.members, Append(ind, Indent))
                \o <<"\n">> \o ind \o <<"}">>
      [] OTHER -> <<"undefined">>

StringifyItems(items, ind) ==
    IF Len(items) = 0 THEN <<>>
    ELSE ind \o Stringify(Head(items), ind)
         \o (IF Len(items) > 1
             THEN <<",", "\n">> \o StringifyItems(Tail(items), ind)
             ELSE <<>>)

StringifyMembers(members, ind) ==
    IF Len(members) = 0 THEN <<>>
    ELSE ind \o <<Quote>> \o Head(members).k \o <<Quote, ":", " ">>
         \o Stringify(Head(members).v, ind)
         \o (IF Len(members) > 1
             THEN <<",", "\n">> \o StringifyMembers(Tail(members), ind)
             ELSE <<>>)

JSONStringify2(v) == Stringify(v, <<>>)

(***************************************************************************)
(* The environment: configuration, the filesystem, the clock.              *)
(***************************************************************************)
K(s) == JStr(<<s>>)

HomeDir == <<"/home/u">>
TmpBase == <<"/tmp">>                         \* process.env.TMPDIR || "/tmp"
NotebookFile == "notebook.ipynb"
MetadataFile == "notebook-metadata.json"
CredentialFile == "kaggle.json"

\* path.join(dir, name) of a file: the directory and the name in it
PathJoin(dir, name) == <<dir, name>>

\* the names fs.mkdtemp(path.join(base, "kaggle-")) can return
TempName(k) == TmpBase \o <<"/kaggle-", ToString(k)>>
TempNames == {TempName(k) : k \in 1..MaxTemp}

CredentialText == <<"{", Quote, "username", Quote, ":", Quote, "alice", Quote, "}">>

\* a directory the user can name in KAGGLE_CONFIG_DIR (README.md, Configuration)
ConfigDirOverride == <<"/etc/kaggle">>

VARIABLES
    calls,      \* per request slot: the handler's position and locals
    dirs,       \* the directories that exist
    files,      \* the files that exist, with their data
    now,        \* Date.now()
    served,     \* call-tool requests delivered so far
    env         \* process.env

vars == <<calls, dirs, files, now, served, env>>

FileExists(path) == path \in DOMAIN files
WriteData(fs, path, data) ==
    [p \in DOMAIN fs \cup {path} |-> IF p = path THEN data ELSE fs[p]]
\* fs.rm(dir, {recursive: true}): the directory and everything in it
RemoveTree(fs, dir) == [p \in {q \in DOMAIN fs : q[1] # dir} |-> fs[p]]

FsError(op) == <<"EACCES: permission denied, ", op>>

(***************************************************************************)
(* The external process.                                                   *)
(***************************************************************************)
StdoutSamples ==
    { <<"Notebook pushed", "\n">>,
      <<"{", Quote, "a", Quote, ":", "1", "}", "\n">>,
      <<Quote, "abc", Quote>>,
      <<"[", "1", ",", "null", "]">> }
StderrSamples == { <<>>, <<"Warning: outdated", "\n">> }

ExecOutcomes ==
    [kind : {"ok"}, stdout : StdoutSamples, stderr : StderrSamples]
    \cup [kind : {"exit"}, stdout : {<<>>}, stderr : StderrSamples]
    \cup [kind : {"spawn"}, stdout : {<<>>}, stderr : {<<>>}]

\* `kaggle ${args.join(" ")}`
CommandLine(argv) ==
    <<"kaggle", " ">> \o JoinWith([i \in 1..Len(argv) |-> JoinElem(argv[i])], <<" ">>)

\* error.message of the rejection of execAsync
ExecErrorMessage(outcome, argv) ==
    IF outcome.kind = "exit"
    THEN <<"Command failed: ">> \o CommandLine(argv) \o <<"\n">> \o outcome.stderr
    ELSE <<"spawn /bin/sh ENOENT">>

\* execAsync rejects: the process exited non-zero or could not be launched
ExecRejectsStderr(outcome) == outcome.kind # "ok" \/ Len(outcome.stderr) > 0
ExecRejects(outcome) == outcome.kind # "ok"

RunKaggleCommandMixingStreams(outcome, argv) ==
    IF ExecRejects(outcome)
    THEN [threw |-> TRUE, value |-> Undefined,
          message |-> <<"Kaggle command failed: ">> \o ExecErrorMessage(outcome, argv)]
    ELSE LET p == JSONParse(outcome.stdout \o outcome.stderr) IN
         [threw |-> FALSE, message |-> <<>>,
          value |-> IF p.ok THEN p.v ELSE JStr(outcome.stdout \o outcome.stderr)]

\* what runKaggleCommand(argv) does once the process has ended
RunKaggleCommand(outcome, argv) ==
    IF ExecRejects(outcome)
    THEN [threw |-> TRUE, value |-> Undefined,
          message |-> <<"Kaggle command failed: ">> \o ExecErrorMessage(outcome, argv)]
    ELSE LET p == JSONParse(outcome.stdout) IN
         [threw |-> FALSE, message |-> <<>>,
          value |-> IF p.ok THEN p.v ELSE JStr(outcome.stdout)]

\* typeof result === "string" ? result : JSON.stringify(result, null, 2)
FormatResult(result) ==
    IF IsString(result) THEN result.s ELSE JSONStringify2(result)

(***************************************************************************)
(* The tool catalog and the requests of the model.                         *)
(***************************************************************************)
ToolCatalog ==
    <<"auth_check", "list_notebooks", "create_notebook", "get_notebook_status",
      "download_notebook_output", "search_datasets", "list_competitions",
      "push_notebook", "save_notebook_metadata", "pull_notebook">>
CatalogNames == {ToolCatalog[i] : i \in 1..Len(ToolCatalog)}

\* the required list of each tool's inputSchema
RequiredParams(name) ==
    CASE name = "create_notebook" -> {"title", "code"}
      [] name \in {"get_notebook_status", "download_notebook_output",
                   "save_notebook_metadata", "pull_notebook"} -> {"notebookSlug"}
      [] name = "search_datasets" -> {"search"}
      [] OTHER -> {}

Slug == K("owner/nb")
SlugValues == {Undefined, Slug}
PathValues == {Undefined, K("./nb")}

RequestNames == CatalogNames \cup {"does_not_exist"}

\* the parameter objects the model's client sends with each tool name
RequestArgs(name) ==
    CASE name = "list_notebooks" ->
           [page : {Undefined, JNum(0), JNum(2)}, pageSize : {Undefined, JNum(5)}]
      [] name = "create_notebook" ->
           {[title |-> tc[1], code |-> tc[2], saveLocally |-> sl[1], localSavePath |-> sl[2]] :
              tc \in {<<K("T"), K("print(1)")>>, <<Undefined, K("print(1)")>>,
                      <<K("T"), Undefined>>},
              sl \in {<<Undefined, Undefined>>, <<JBool(FALSE), Undefined>>,
                      <<JBool(TRUE), Undefined>>, <<JBool(TRUE), K("./nb")>>}}
      [] name = "get_notebook_status" -> [notebookSlug : SlugValues]
      [] name = "download_notebook_output" ->
           [notebookSlug : SlugValues, outputPath : {Undefined, K("./out")}]
      [] name = "search_datasets" ->
           [search : {Undefined, K("arc")}, page : {Undefined, JNum(2)}]
      [] name = "list_competitions" ->
           [group : {Undefined, JStr(<<>>), K("general"), K("entered")},
            category : {Undefined, JStr(<<>>), K("all"), K("featured")},
            sortBy : {Undefined, JStr(<<>>), K("prize")}]
      [] name = "push_notebook" ->
           [mode : {Undefined, JStr(<<>>), K("slug"), K("local"), K("remote")},
            notebookSlug : {Undefined, JStr(<<>>), Slug},
            localPath : {Undefined, JStr(<<>>), K("./nb")}]
      [] name = "save_notebook_metadata" ->
           [notebookSlug : SlugValues, localPath : PathValues,
            includeNotebook : {Undefined, JBool(FALSE), JBool(TRUE)}]
      [] name = "pull_notebook" ->
           [notebookSlug : SlugValues, localPath : PathValues,
            metadata : {Undefined, JBool(FALSE), JBool(TRUE)}]
      [] OTHER -> {EmptyObj}

(***************************************************************************)
(* The argument vectors (the Command Builder).                             *)
(***************************************************************************)
DefaultNotebookDir == K("./kaggle-notebook")
DefaultOutputDir == K("./kaggle-outputs")

ListNotebooksArgv(args) ==
    <<K("kernels"), K("list"), K("--mine"),
      K("--page"), JStr(ToStr(OrElse(Get(args, "page"), JNum(1)))),
      K("--page-size"), JStr(ToStr(OrElse(Get(args, "pageSize"), JNum(20)))),
      K("-v")>>

CreateNotebookArgv(tempDir) == <<K("kernels"), K("push"), K("-p"), JStr(tempDir)>>

StatusArgv(args) == <<K("kernels"), K("status"), Get(args, "notebookSlug")>>

OutputArgv(args) ==
    <<K("kernels"), K("output"), Get(args, "notebookSlug"), K("-p"),
      OrElse(Get(args, "outputPath"), DefaultOutputDir)>>

SearchDatasetsArgv(args) ==
    <<K("datasets"), K("list"), K("-s"),
      JStr(<<Quote>> \o ToStr(Get(args, "search")) \o <<Quote>>),
      K("--page"), JStr(ToStr(OrElse(Get(args, "page"), JNum(1)))),
      K("-v")>>

ListCompetitionsArgvNoSentinel(args) ==
    <<K("competitions"), K("list")>>
    \o (IF Truthy(Get(args, "group"))
        THEN <<K("--group"), Get(args, "group")>> ELSE <<>>)
    \o (IF Truthy(Get(args, "category")) /\ Get(args, "category") # K("all")
        THEN <<K("--category"), Get(args, "category")>> ELSE <<>>)
    \o (IF Truthy(Get(args, "sortBy"))
        THEN <<K("--sort-by"), Get(args, "sortBy")>> ELSE <<>>)
    \o <<K("-v")>>

ListCompetitionsArgv(args) ==
    <<K("competitions"), K("list")>>
    \o (IF Truthy(Get(args, "group")) /\ Get(args, "group") # K("general")
        THEN <<K("--group"), Get(args, "group")>> ELSE <<>>)
    \o (IF Truthy(Get(args, "category")) /\ Get(args, "category") # K("all")
        THEN <<K("--category"), Get(args, "category")>> ELSE <<>>)
    \o (IF Truthy(Get(args, "sortBy"))
        THEN <<K("--sort-by"), Get(args, "sortBy")>> ELSE <<>>)
    \o <<K("-v")>>

PushSlugArgv(args) == <<K("kernels"), K("push"), Get(args, "notebookSlug")>>
PushLocalArgv(args) == <<K("kernels"), K("push"), K("-p"), Get(args, "localPath")>>

SaveMetadataArgv(args) ==
    <<K("kernels"), K("pull"), Get(args, "notebookSlug"), K("-p"),
      OrElse(Get(args, "localPath"), DefaultNotebookDir)>>
    \o (IF Get(args, "includeNotebook") = JBool(FALSE) THEN <<K("--metadata")>> ELSE <<>>)

PullArgvFlagWhenFalse(args) ==
    <<K("kernels"), K("pull"), Get(args, "notebookSlug"), K("-p"),
      OrElse(Get(args, "localPath"), DefaultNotebookDir)>>
    \o (IF Get(args, "metadata") = JBool(FALSE) THEN <<K("--metadata")>> ELSE <<>>)

PullArgv(args) ==
    <<K("kernels"), K("pull"), Get(args, "notebookSlug"), K("-p"),
      OrElse(Get(args, "localPath"), DefaultNotebookDir)>>
    \o (IF Get(args, "metadata") # JBool(FALSE) THEN <<K("--metadata")>> ELSE <<>>)

(***************************************************************************)
(* The documents create_notebook stages.                                   *)
(***************************************************************************)
Notebook(args) ==
    [source |-> Get(args, "code"),
     language |-> OrElse(Get(args, "language"), K("python")),
     display_name |-> IF Get(args, "language") = K("r") THEN K("R") ELSE K("Python 3"),
     name |-> IF Get(args, "language") = K("r") THEN K("ir") ELSE K("python3")]

Metadata(args, time) ==
    [id |-> <<"new-notebook-", ToString(time)>>,
     title |-> Get(args, "title"),
     code_file |-> NotebookFile,
     language |-> OrElse(Get(args, "language"), K("python")),
     kernel_type |-> "notebook",
     is_private |-> Get(args, "isPrivate") # JBool(FALSE),
     enable_gpu |-> OrElse(Get(args, "enableGpu"), JBool(FALSE)),
     enable_internet |-> Get(args, "enableInternet") # JBool(FALSE),
     dataset_sources |-> OrElse(Get(args, "datasetSources"), JArr(<<>>))]

(***************************************************************************)
(* The call-tool handler.  Each action is one resumption of the handler:   *)
(* the awaited operation takes effect and the handler runs to its next     *)
(* await or to its return.                                                 *)
(***************************************************************************)
IdleCall ==
    [pc |-> "idle", name |-> "", args |-> Undefined, tempDir |-> <<>>,
     dest |-> <<>>, argv |-> <<>>, outcome |-> Undefined, result |-> Undefined,
     reply |-> <<>>, thrown |-> <<>>, log |-> <<>>,
     notebook |-> Undefined, metadata |-> Undefined]

Logged(call, entry) == [call EXCEPT !.log = Append(@, entry)]

\* return { content: [{ type: "text", text }] }
Return(call, text) ==
    [call EXCEPT !.pc = "returned", !.reply = <<[type |-> "text", text |-> text]>>]

CatchErrorRethrow(call, message) ==
    [call EXCEPT !.pc = "failed", !.thrown = message]

\* catch (error) { return ... `Error: ${error.message}` }
CatchError(call, message) ==
    Return([call EXCEPT !.thrown = message], <<"Error:", " ">> \o message)

\* runKaggleCommand(argv) up to its await: the process is started
StartExec(call, argv) ==
    [Logged(call, [op |-> "exec", argv |-> argv]) EXCEPT !.pc = "exec", !.argv = argv]

\* fs.mkdir(dest, {recursive: true}) is awaited next
StartMkdir(call, dest) == [call EXCEPT !.pc = "mkdir", !.dest = dest]

PushNotebookNoVerify(call) ==
    LET args == call.args
        mode == OrElse(Get(args, "mode"), K("slug"))
    IN CASE mode = K("slug") ->
              IF ~Truthy(Get(args, "notebookSlug"))
              THEN CatchError(call, <<"notebookSlug is required when mode is 'slug'">>)
              ELSE StartExec(call, PushSlugArgv(args))
         [] mode = K("local") ->
              IF ~Truthy(Get(args, "localPath"))
              THEN CatchError(call, <<"localPath is required when mode is 'local'">>)
              ELSE StartExec(call, PushLocalArgv(args))
         [] OTHER ->
              CatchError(call, <<"Invalid mode: ">> \o ToStr(mode)
                               \o <<". Use 'slug' or 'local'">>)

\* case "push_notebook", up to its first await
PushNotebook(call) ==
    LET args == call.args
        mode == OrElse(Get(args, "mode"), K("slug"))
    IN CASE mode = K("slug") ->
              IF ~Truthy(Get(args, "notebookSlug"))
              THEN CatchError(call, <<"notebookSlug is required when mode is 'slug'">>)
              ELSE StartExec(call, PushSlugArgv(args))
         [] mode = K("local") ->
              IF ~Truthy(Get(args, "localPath"))
              THEN CatchError(call, <<"localPath is required when mode is 'local'">>)
              ELSE [call EXCEPT !.pc = "accessMetadata",
                                !.dest = ToStr(Get(args, "localPath"))]
         [] OTHER ->
              CatchError(call, <<"Invalid mode: ">> \o ToStr(mode)
                               \o <<". Use 'slug' or 'local'">>)

SwitchCasesWithoutPull == CatalogNames \ {"pull_notebook"}

\* the case labels of switch (name)
SwitchCases ==
    {"auth_check", "list_notebooks", "create_notebook", "get_notebook_status",
     "download_notebook_output", "search_datasets", "list_competitions",
     "push_notebook", "save_notebook_metadata", "pull_notebook"}

\* switch (name), each case up to its first await
Dispatch(call) ==
    LET name == call.name
        args == call.args
    IN IF name \notin SwitchCases
       THEN CatchError(call, <<"Unknown tool: ", name>>)
       ELSE CASE name = "auth_check" -> [call EXCEPT !.pc = "authAccess"]
              [] name = "list_notebooks" -> StartExec(call, ListNotebooksArgv(args))
              [] name = "create_notebook" -> [call EXCEPT !.pc = "mkdtemp"]
              [] name = "get_notebook_status" -> StartExec(call, StatusArgv(args))
              [] name = "download_notebook_output" ->
                   StartMkdir(call, ToStr(OrElse(Get(args, "outputPath"), DefaultOutputDir)))
              [] name = "search_datasets" -> StartExec(call, SearchDatasetsArgv(args))
              [] name = "list_competitions" -> StartExec(call, ListCompetitionsArgv(args))
              [] name = "push_notebook" -> PushNotebook(call)
              [] OTHER ->
                   StartMkdir(call, ToStr(OrElse(Get(args, "localPath"), DefaultNotebookDir)))

ArgsMissingNever(args) == FALSE

\* if (!args)
ArgsMissing(args) == args = Undefined

\* the handler from its entry to its first await
Handle(name, args) ==
    LET call == [IdleCall EXCEPT !.name = name, !.args = args] IN
    IF ArgsMissing(args)
    THEN [call EXCEPT !.pc = "failed", !.thrown = <<"No arguments provided">>]
    ELSE Dispatch(call)

ListingTools ==
    {"list_notebooks", "get_notebook_status", "search_datasets", "list_competitions"}

\* the success message a tool puts before the output of the process
SuccessMessage(call) ==
    LET args == call.args
        name == call.name
    IN CASE name = "create_notebook" ->
              <<"[ok] Notebook created: ">> \o ToStr(Get(args, "title"))
         [] name = "download_notebook_output" ->
              <<"[ok] Notebook output downloaded to: ">>
              \o ToStr(OrElse(Get(args, "outputPath"), DefaultOutputDir))
         [] name = "push_notebook" ->
              IF OrElse(Get(args, "mode"), K("slug")) = K("slug")
              THEN <<"[ok] Notebook pushed and execution started: ">>
                   \o ToStr(Get(args, "notebookSlug"))
              ELSE <<"[ok] Notebook pushed and execution started from: ">>
                   \o ToStr(Get(args, "localPath"))
         [] name = "save_notebook_metadata" ->
              <<"[ok] Notebook metadata">>
              \o (IF Get(args, "includeNotebook") # JBool(FALSE)
                  THEN <<" and notebook">> ELSE <<>>)
              \o <<" saved to ">>
              \o ToStr(OrElse(Get(args, "localPath"), DefaultNotebookDir)) \o <<":">>
         [] name = "pull_notebook" ->
              <<"[ok] Notebook pulled to ">>
              \o ToStr(OrElse(Get(args, "localPath"), DefaultNotebookDir)) \o <<":">>
         [] OTHER -> <<>>

\* `${successMessage}\n${result}`
SuccessText(call) == SuccessMessage(call) \o <<"\n">> \o ToStr(call.result)

\* the handler after runKaggleCommand has returned call.result
AfterExec(call) ==
    CASE call.name \in ListingTools -> Return(call, FormatResult(call.result))
      [] call.name = "create_notebook" ->
           IF Truthy(Get(call.args, "saveLocally"))
           THEN [call EXCEPT !.pc = "mkdirLocal",
                   !.dest = ToStr(OrElse(Get(call.args, "localSavePath"), DefaultNotebookDir))]
           ELSE [call EXCEPT !.pc = "rm"]
      [] OTHER -> Return(call, SuccessText(call))

AfterProcessRetrying(call, o) ==
    LET r == RunKaggleCommand(o, call.argv)
        done == [call EXCEPT !.outcome = o, !.result = r.value]
    IN IF r.threw THEN StartExec(call, call.argv) ELSE AfterExec(done)

\* the handler once the process it awaits has ended with outcome o: the rest
\* of runKaggleCommand, then the catch or the code after the call
AfterProcess(call, o) ==
    LET r == RunKaggleCommand(o, call.argv)
        done == [call EXCEPT !.outcome = o, !.result = r.value]
    IN IF r.threw THEN CatchError(done, r.message) ELSE AfterExec(done)

\* the argument vector of the tools that create their target directory first
ArgvAfterMkdir(call) ==
    CASE call.name = "download_notebook_output" -> OutputArgv(call.args)
      [] call.name = "save_notebook_metadata" -> SaveMetadataArgv(call.args)
      [] OTHER -> PullArgv(call.args)

\* the text create_notebook returns
CreatedText(call) ==
    SuccessText(call)
    \o (IF Truthy(Get(call.args, "saveLocally"))
        THEN <<"\n", "Files saved locally to: ">> \o call.dest ELSE <<>>)

CredentialPath == PathJoin(HomeDir \o <<"/.kaggle">>, CredentialFile)

CredentialsNotFound ==
    <<"[no] Kaggle API credentials not found. Please set up your Kaggle API key:",
      "\n", "\n", "1. Go to ", "https://www.kaggle.com/account", "\n",
      "2. Create New API Token", "\n",
      "3. Place the downloaded kaggle.json in ~/.kaggle/">>

UsernameOfUser(config) ==
    IF config.t = "object"
       /\ \E i \in 1..Len(config.members) : config.members[i].k = <<"user">>
    THEN JStr(<<"user">>)
    ELSE Undefined

\* config.username of the parsed credential file
Username(config) ==
    IF config.t = "object"
       /\ \E i \in 1..Len(config.members) : config.members[i].k = <<"username">>
    THEN LET i == CHOOSE j \in 1..Len(config.members) :
                    /\ config.members[j].k = <<"username">>
                    /\ \A l \in (j + 1)..Len(config.members) :
                          config.members[l].k # <<"username">>
         IN config.members[i].v
    ELSE Undefined

\* `... credentials found for user: ${config.username}`
CredentialsFound(config) ==
    <<"[ok] Kaggle API credentials found for user: ">> \o ToStr(Username(config))

Set(c, call) == calls' = [calls EXCEPT ![c] = call]

\* a call-tool request arrives while no other call is in progress; it takes
\* the first slot
CallTool(c) ==
    /\ served < MaxCalls
    /\ \A d \in Calls : calls[d].pc = "idle"
    /\ c = 1
    /\ \E name \in RequestNames :
         \E args \in RequestArgs(name) \cup {Undefined} :
            Set(c, Handle(name, args))
    /\ served' = served + 1
    /\ UNCHANGED <<dirs, files, now, env>>

\* await fs.access(kaggleConfigPath)
AuthAccess(c) ==
    /\ calls[c].pc = "authAccess"
    /\ \/ /\ FileExists(CredentialPath)
          /\ Set(c, [calls[c] EXCEPT !.pc = "authRead"])
       \/ Set(c, Return(calls[c], CredentialsNotFound))
    /\ UNCHANGED <<dirs, files, now, served, env>>

\* JSON.parse(await fs.readFile(kaggleConfigPath, "utf-8"))
AuthRead(c) ==
    /\ calls[c].pc = "authRead"
    /\ \/ /\ FileExists(CredentialPath)
          /\ LET p == JSONParse(files[CredentialPath]) IN
             IF p.ok /\ p.v.t # "null"
             THEN Set(c, Return(Logged(calls[c], [op |-> "readFile", path |-> CredentialPath]),
                        CredentialsFound(p.v)))
             ELSE Set(c, Return(calls[c], CredentialsNotFound))
       \/ Set(c, Return(calls[c], CredentialsNotFound))
    /\ UNCHANGED <<dirs, files, now, served, env>>

\* the handler after fs.mkdtemp has returned tempDir, up to the first writeFile
AfterMkdtemp(call, tempDir, time) ==
    [Logged(call, [op |-> "mkdtemp", dir |-> tempDir])
       EXCEPT !.pc = "writeNotebook", !.tempDir = tempDir,
              !.notebook = Notebook(call.args),
              !.metadata = Metadata(call.args, time)]

FreshTempFirstName(k) == k = 1

\* the name fs.mkdtemp returns: one that is not in use (the first such name
\* of the model: the names are interchangeable)
FreshTemp(k) ==
    /\ TempName(k) \notin dirs
    /\ \A j \in 1..(k - 1) : TempName(j) \in dirs

\* await fs.mkdtemp(path.join(process.env.TMPDIR || "/tmp", "kaggle-")); the
\* clock has moved on to what Date.now() reads next
Mkdtemp(c) ==
    /\ calls[c].pc = "mkdtemp"
    /\ \/ \E k \in 1..MaxTemp : \E time \in now..MaxClock :
            /\ FreshTemp(k)
            /\ dirs' = dirs \cup {TempName(k)}
            /\ now' = time
            /\ Set(c, AfterMkdtemp(calls[c], TempName(k), time))
       \/ /\ Set(c, CatchError(calls[c], FsError("mkdtemp")))
          /\ UNCHANGED <<dirs, now>>
    /\ UNCHANGED <<files, served, env>>

AfterWriteNotebookPush(call) == StartExec(call, CreateNotebookArgv(call.tempDir))

\* the handler after the first writeFile: the second writeFile is awaited
AfterWriteNotebook(call) == [call EXCEPT !.pc = "writeMetadata"]

\* await fs.writeFile(notebookPath, JSON.stringify(notebook, null, 2))
WriteNotebook(c) ==
    LET call == calls[c]
        path == PathJoin(call.tempDir, NotebookFile)
    IN /\ call.pc = "writeNotebook"
       /\ \/ /\ call.tempDir \in dirs
             /\ files' = WriteData(files, path, call.notebook)
             /\ Set(c, AfterWriteNotebook(Logged(call, [op |-> "writeFile", path |-> path])))
          \/ /\ Set(c, CatchError(call, FsError("open")))
             /\ UNCHANGED files
       /\ UNCHANGED <<dirs, now, served, env>>

\* await fs.writeFile(metadataPath, JSON.stringify(metadata, null, 2)), then
\* runKaggleCommand(["kernels", "push", "-p", tempDir]) up to its await
WriteMetadata(c) ==
    LET call == calls[c]
        path == PathJoin(call.tempDir, MetadataFile)
    IN /\ call.pc = "writeMetadata"
       /\ \/ /\ call.tempDir \in dirs
             /\ files' = WriteData(files, path, call.metadata)
             /\ Set(c, StartExec(Logged(call, [op |-> "writeFile", path |-> path]),
                                 CreateNotebookArgv(call.tempDir)))
          \/ /\ Set(c, CatchError(call, FsError("open")))
             /\ UNCHANGED files
       /\ UNCHANGED <<dirs, now, served, env>>

\* the external process ends: the rest of runKaggleCommand, then the handler
\* (what the process itself writes to disk is not part of the handler's state)
ExecDone(c) ==
    LET call == calls[c] IN
    /\ call.pc = "exec"
    /\ \E o \in ExecOutcomes : Set(c, AfterProcess(call, o))
    /\ UNCHANGED <<dirs, files, now, served, env>>

\* await fs.mkdir(localSavePath, { recursive: true })
MkdirLocal(c) ==
    LET call == calls[c] IN
    /\ call.pc = "mkdirLocal"
    /\ \/ /\ dirs' = dirs \cup {call.dest}
          /\ Set(c, [Logged(call, [op |-> "mkdir", dir |-> call.dest])
                       EXCEPT !.pc = "copyNotebook"])
       \/ /\ Set(c, CatchError(call, FsError("mkdir")))
          /\ UNCHANGED dirs
    /\ UNCHANGED <<files, now, served, env>>

\* await fs.copyFile(from, path.join(localSavePath, name))
CopyStep(c, at, name, next) ==
    LET call == calls[c]
        from == PathJoin(call.tempDir, name)
        to == PathJoin(call.dest, name)
    IN /\ call.pc = at
       /\ \/ /\ FileExists(from) /\ call.dest \in dirs
             /\ files' = WriteData(files, to, files[from])
             /\ Set(c, [Logged(call, [op |-> "copyFile", path |-> to])
                          EXCEPT !.pc = next])
          \/ /\ Set(c, CatchError(call, FsError("copyfile")))
             /\ UNCHANGED files
       /\ UNCHANGED <<dirs, now, served, env>>

CopyMetadataFromNotebook(c) == CopyStep(c, "copyMetadata", NotebookFile, "rm")

CopyNotebook(c) == CopyStep(c, "copyNotebook", NotebookFile, "copyMetadata")
CopyMetadata(c) == CopyStep(c, "copyMetadata", MetadataFile, "rm")

\* await fs.rm(tempDir, { recursive: true }), then the return
RmTemp(c) ==
    LET call == calls[c] IN
    /\ call.pc = "rm"
    /\ \/ /\ call.tempDir \in dirs
          /\ dirs' = dirs \ {call.tempDir}
          /\ files' = RemoveTree(files, call.tempDir)
          /\ Set(c, Return(Logged(call, [op |-> "rm", dir |-> call.tempDir]),
                           CreatedText(call)))
       \/ /\ Set(c, CatchError(call, FsError("rm")))
          /\ UNCHANGED <<dirs, files>>
    /\ UNCHANGED <<now, served, env>>

MkdirSkipped(c) ==
    LET call == calls[c] IN
    /\ call.pc = "mkdir"
    /\ Set(c, StartExec(call, ArgvAfterMkdir(call)))
    /\ UNCHANGED <<dirs, files, now, served, env>>

\* await fs.mkdir(path, { recursive: true }), then runKaggleCommand up to its await
Mkdir(c) ==
    LET call == calls[c] IN
    /\ call.pc = "mkdir"
    /\ \/ /\ dirs' = dirs \cup {call.dest}
          /\ Set(c, StartExec(Logged(call, [op |-> "mkdir", dir |-> call.dest]),
                              ArgvAfterMkdir(call)))
       \/ /\ Set(c, CatchError(call, FsError("mkdir")))
          /\ UNCHANGED dirs
    /\ UNCHANGED <<files, now, served, env>>

\* await fs.access(path.join(localPath, "notebook-metadata.json"))
AccessMetadata(c) ==
    LET call == calls[c] IN
    /\ call.pc = "accessMetadata"
    /\ \/ /\ FileExists(PathJoin(call.dest, MetadataFile))
          /\ Set(c, StartExec(call, PushLocalArgv(call.args)))
       \/ Set(c, CatchError(call, <<MetadataFile, " not found in ">> \o call.dest))
    /\ UNCHANGED <<dirs, files, now, served, env>>

\* the transport sends the reply (or the failure) and the slot is free again
Reply(c) ==
    /\ calls[c].pc \in {"returned", "failed"}
    /\ Set(c, IdleCall)
    /\ UNCHANGED <<dirs, files, now, served, env>>

\* where the user has put the credential file: nowhere, in the home
\* directory, or in the directory KAGGLE_CONFIG_DIR names
CredentialPlaces == {"none", "home", "override"}
OverridePath == PathJoin(ConfigDirOverride, CredentialFile)
WithCredentials(cred, fs) ==
    CASE cred = "home" -> WriteData(fs, CredentialPath, CredentialText)
      [] cred = "override" -> WriteData(fs, OverridePath, CredentialText)
      [] OTHER -> fs

\* the pair an earlier create_notebook with saveLocally has left in ./nb
\* (in the environments of the model: the one with the home credential file)
SavedDir == <<"./nb">>
SavedArgs == [title |-> K("T"), code |-> K("print(1)")]
WithSaved(saved, fs) ==
    IF saved
    THEN WriteData(WriteData(fs, PathJoin(SavedDir, NotebookFile), Notebook(SavedArgs)),
                   PathJoin(SavedDir, MetadataFile), Metadata(SavedArgs, 0))
    ELSE fs

Init ==
    /\ calls = [c \in Calls |-> IdleCall]
    /\ now = 0
    /\ served = 0
    /\ \E cred \in CredentialPlaces : \E saved \in BOOLEAN :
         /\ saved <=> cred = "home"
         /\ env = [KAGGLE_CONFIG_DIR |->
                     IF cred = "override" THEN JStr(ConfigDirOverride) ELSE Undefined]
         /\ dirs = {HomeDir, TmpBase}
                   \cup (IF cred = "home" THEN {CredentialPath[1]} ELSE {})
                   \cup (IF cred = "override" THEN {ConfigDirOverride} ELSE {})
                   \cup (IF saved THEN {SavedDir} ELSE {})
         /\ files = WithSaved(saved, WithCredentials(cred, <<>>))

Step(c) ==
    \/ CallTool(c)
    \/ AuthAccess(c)
    \/ AuthRead(c)
    \/ Mkdtemp(c)
    \/ WriteNotebook(c)
    \/ WriteMetadata(c)
    \/ ExecDone(c)
    \/ MkdirLocal(c)
    \/ CopyNotebook(c)
    \/ CopyMetadata(c)
    \/ RmTemp(c)
    \/ Mkdir(c)
    \/ AccessMetadata(c)
    \/ Reply(c)

Next == \E c \in Calls : Step(c)

Spec == Init /\ [][Next]_vars

(***************************************************************************)
(* Overlapping calls.  The handler is an async function and nothing in it  *)
(* queues the requests: a request that arrives while another call waits at *)
(* an await starts at once.  The clients of this specification send        *)
(* create_notebook only, one request per slot, and a call that has         *)
(* returned stays in its slot.                                             *)
(***************************************************************************)
OverlapArgs ==
    {[title |-> K("T"), code |-> K("print(1)"),
      saveLocally |-> JBool(TRUE), localSavePath |-> K("./nb")]}

OverlapOutcomes ==
    {o \in ExecOutcomes :
        /\ o.stderr = <<>>
        /\ o.kind \in {"ok", "exit"}
        /\ o.kind = "ok" => o.stdout = <<"Notebook pushed", "\n">>}

\* a create_notebook request arrives, whatever the other calls are doing; it
\* takes the first free slot
CallToolOverlap(c) ==
    /\ served < NumSlots
    /\ calls[c].pc = "idle"
    /\ \A d \in 1..(c - 1) : calls[d].pc # "idle"
    /\ \E args \in OverlapArgs : Set(c, Handle("create_notebook", args))
    /\ served' = served + 1
    /\ UNCHANGED <<dirs, files, now, env>>

\* the push of a call ends
ExecDoneOverlap(c) ==
    LET call == calls[c] IN
    /\ call.pc = "exec"
    /\ \E o \in OverlapOutcomes : Set(c, AfterProcess(call, o))
    /\ UNCHANGED <<dirs, files, now, served, env>>

\* the server starts with no credential file and nothing saved
InitOverlap == Init /\ files = <<>>

StepOverlap(c) ==
    \/ CallToolOverlap(c)
    \/ Mkdtemp(c)
    \/ WriteNotebook(c)
    \/ WriteMetadata(c)
    \/ ExecDoneOverlap(c)
    \/ MkdirLocal(c)
    \/ CopyNotebook(c)
    \/ CopyMetadata(c)
    \/ RmTemp(c)

NextOverlap == \E c \in Calls : StepOverlap(c)

SpecOverlap == InitOverlap /\ [][NextOverlap]_vars

(***************************************************************************)
(* What the properties below speak of.                                     *)
(***************************************************************************)
Returned(call) == call.pc = "returned"
ReplyText(call) == call.reply[1].text
HasArgs(call) == call.pc # "idle" /\ call.args # Undefined

\* the text begins with "Error: "
StartsWithError(text) == Len(text) >= 2 /\ text[1] = "Error:" /\ text[2] = " "

\* the places of the log where this call started the external process
ExecStarts(call) == {i \in DOMAIN call.log : call.log[i].op = "exec"}
Invoked(call) == ExecStarts(call) # {}

\* the call was stopped by an error of the local filesystem
FsFailed(call) ==
    /\ Len(call.thrown) > 0
    /\ call.thrown[1] = FsError("")[1]

Wrote(call, upto, path) ==
    \E j \in 1..(upto - 1) : call.log[j] = [op |-> "writeFile", path |-> path]

(***************************************************************************)
(* C1.  A create_notebook call that has created its staging directory and  *)
(* met no filesystem error leaves no staging directory when it returns,    *)
(* whether the push succeeded or failed.                                   *)
(***************************************************************************)
C1_StagingRemovedOnReturn ==
    \A c \in Calls :
        LET call == calls[c] IN
        (/\ Returned(call)
         /\ call.name = "create_notebook"
         /\ call.tempDir # <<>>
         /\ ~FsFailed(call))
        => call.tempDir \notin dirs

(***************************************************************************)
(* C2.  In a create_notebook call the push is started only after the       *)
(* notebook document and the metadata descriptor have both been written    *)
(* into the staging directory, which holds both while the push runs.       *)
(***************************************************************************)
C2_PushAfterBothWrites ==
    \A c \in Calls :
        LET call == calls[c] IN
        call.name = "create_notebook" =>
            /\ \A i \in ExecStarts(call) :
                  /\ Wrote(call, i, PathJoin(call.tempDir, NotebookFile))
                  /\ Wrote(call, i, PathJoin(call.tempDir, MetadataFile))
                  /\ call.log[i].argv = CreateNotebookArgv(call.tempDir)
            /\ call.pc = "exec" =>
                  /\ FileExists(PathJoin(call.tempDir, NotebookFile))
                  /\ FileExists(PathJoin(call.tempDir, MetadataFile))

C2_Witness ==
    \E c \in Calls : calls[c].name = "create_notebook" /\ calls[c].pc = "exec"

C4_NoArgumentsFailsOutright ==
    \A c \in Calls :
        LET call == calls[c] IN
        (call.pc # "idle" /\ call.args = Undefined) =>
            /\ call.pc = "failed"
            /\ call.thrown = <<"No arguments provided">>
            /\ call.reply = <<>>
            /\ call.log = <<>>
            /\ call.tempDir = <<>>

C4_Witness ==
    \E c \in Calls :
        /\ calls[c].pc = "failed" /\ calls[c].args = Undefined
        /\ calls[c].name = "auth_check"

(***************************************************************************)
(* C5.  A call with a parameters object returns "Error: Unknown tool:      *)
(* <name>" exactly when the name is not in the catalog of list-tools, and  *)
(* then it has started no process and changed nothing on disk; a name of   *)
(* the catalog runs its own tool's subcommand.                             *)
(***************************************************************************)
UnknownToolText(name) == <<"Error:", " ", "Unknown tool: ", name>>

\* the subcommand each tool of the catalog runs
OwnCommand(name) ==
    CASE name = "list_notebooks" -> <<K("kernels"), K("list")>>
      [] name \in {"create_notebook", "push_notebook"} -> <<K("kernels"), K("push")>>
      [] name = "get_notebook_status" -> <<K("kernels"), K("status")>>
      [] name = "download_notebook_output" -> <<K("kernels"), K("output")>>
      [] name = "search_datasets" -> <<K("datasets"), K("list")>>
      [] name = "list_competitions" -> <<K("competitions"), K("list")>>
      [] name \in {"save_notebook_metadata", "pull_notebook"} -> <<K("kernels"), K("pull")>>
      [] OTHER -> <<>>

C5_UnknownToolIffNotInCatalog ==
    \A c \in Calls :
        LET call == calls[c] IN
        HasArgs(call) =>
            /\ (Returned(call) /\ ReplyText(call) = UnknownToolText(call.name))
                  <=> call.name \notin CatalogNames
            /\ call.name \notin CatalogNames => call.log = <<>> /\ call.tempDir = <<>>
            /\ Invoked(call) => SubSeq(call.argv, 1, 2) = OwnCommand(call.name)

C5_Witness ==
    \E c \in Calls :
        /\ Returned(calls[c]) /\ HasArgs(calls[c])
        /\ ReplyText(calls[c]) = UnknownToolText("does_not_exist")

(***************************************************************************)
(* C6.  A call that has run the external process returns "Error: Kaggle    *)
(* command failed: <message>" exactly when the process exited non-zero or  *)
(* could not be launched; standard error alone is no failure.              *)
(***************************************************************************)
KaggleFailedText(call) ==
    <<"Error:", " ", "Kaggle command failed: ">>
    \o ExecErrorMessage(call.outcome, call.argv)

IsKaggleFailure(text) ==
    Len(text) >= 3 /\ StartsWithError(text) /\ text[3] = "Kaggle command failed: "

C6_FailureIffProcessFailed ==
    \A c \in Calls :
        LET call == calls[c] IN
        (Returned(call) /\ Invoked(call)) =>
            /\ call.outcome # Undefined
            /\ IsKaggleFailure(ReplyText(call)) <=> call.outcome.kind \in {"exit", "spawn"}
            /\ call.outcome.kind \in {"exit", "spawn"} =>
                  ReplyText(call) = KaggleFailedText(call)

C6_Witness ==
    \E c \in Calls :
        /\ Returned(calls[c]) /\ Invoked(calls[c])
        /\ calls[c].outcome.kind = "ok"
        /\ Len(calls[c].outcome.stderr) > 0
        /\ ~StartsWithError(ReplyText(calls[c]))

(***************************************************************************)
(* C7.  For every tool of the catalog a call whose required parameters are *)
(* all present returns a result with non-empty content, and a call in      *)
(* which a required parameter is absent returns a text that starts with    *)
(* "Error:" (or never reaches the handler's dispatch).                     *)
(***************************************************************************)
MissingRequired(call) ==
    \E k \in RequiredParams(call.name) : Get(call.args, k) = Undefined

C7_RequiredParametersEnforced ==
    \A c \in Calls :
        LET call == calls[c] IN
        (HasArgs(call) /\ Returned(call) /\ call.name \in CatalogNames) =>
            /\ Len(call.reply) > 0
            /\ MissingRequired(call) => ReplyText(call)[1] = "Error:"

(***************************************************************************)
(* C8.  push_notebook starts the external process only with mode "slug"    *)
(* (or absent) and notebookSlug present, on [kernels, push, <slug>], or    *)
(* with mode "local", localPath present and notebook-metadata.json inside  *)
(* localPath, on [kernels, push, -p, <localPath>]; every other call        *)
(* returns "Error: ...", the missing file's error naming file and path.    *)
(***************************************************************************)
Present(v) == v # Undefined
NonEmpty(v) == v.t = "string" /\ Len(v.s) > 0

MetadataMissingText(localPath) ==
    <<"Error:", " ", MetadataFile, " not found in ">> \o ToStr(localPath)

\* the two cases of the claim, with isGiven saying when a parameter counts as
\* given and slugModes the mode values that select the push by identifier
PushCases(call, slugModes, isGiven) ==
    LET mode == Get(call.args, "mode")
        slug == Get(call.args, "notebookSlug")
        localPath == Get(call.args, "localPath")
        bySlug == mode \in slugModes /\ isGiven[slug]
        byPath == /\ mode = K("local") /\ isGiven[localPath]
                  /\ FileExists(PathJoin(ToStr(localPath), MetadataFile))
    IN /\ Invoked(call) =>
             /\ Cardinality(ExecStarts(call)) = 1
             /\ \/ bySlug /\ call.argv = <<K("kernels"), K("push"), slug>>
                \/ byPath /\ call.argv = <<K("kernels"), K("push"), K("-p"), localPath>>
       /\ (Returned(call) /\ ~(bySlug \/ byPath)) =>
             /\ ~Invoked(call)
             /\ StartsWithError(ReplyText(call))
       /\ (Returned(call) /\ ~Invoked(call)) =>
             /\ StartsWithError(ReplyText(call))
             /\ (mode = K("local") /\ NonEmpty(localPath)) =>
                   ReplyText(call) = MetadataMissingText(localPath)

PushValues ==
    UNION {{a.mode, a.notebookSlug, a.localPath} : a \in RequestArgs("push_notebook")}

C8_PushOnlyInTheTwoCases ==
    \A c \in Calls :
        (HasArgs(calls[c]) /\ calls[c].name = "push_notebook") =>
            PushCases(calls[c], {K("slug"), Undefined},
                      [v \in PushValues |-> Present(v)])

\* amended: an empty mode selects the push by identifier as an absent one
\* does, and an empty notebookSlug or localPath counts as missing
C8_PushOnlyInTheTwoCasesNonEmpty ==
    \A c \in Calls :
        (HasArgs(calls[c]) /\ calls[c].name = "push_notebook") =>
            PushCases(calls[c], {K("slug"), Undefined, JStr(<<>>)},
                      [v \in PushValues |-> NonEmpty(v)])

C8_Witness ==
    \E c \in Calls :
        /\ calls[c].name = "push_notebook" /\ Returned(calls[c]) /\ Invoked(calls[c])
        /\ Get(calls[c].args, "mode") = K("local")
        /\ calls[c].outcome.kind = "ok"

(***************************************************************************)
(* C9.  The vector of list_competitions starts with [competitions, list],  *)
(* ends with -v, and holds "--group g" exactly when group is present and   *)
(* not "general", "--category c" exactly when category is present and not  *)
(* "all", "--sort-by s" exactly when sortBy is present, in that order.     *)
(***************************************************************************)
FlagAt(argv, flag, value) ==
    {i \in 1..(Len(argv) - 1) : argv[i] = K(flag) /\ argv[i + 1] = value}
HasFlag(argv, flag) == \E i \in 1..Len(argv) : argv[i] = K(flag)

CompetitionsVector(call, isGiven) ==
    LET argv == call.argv
        group == Get(call.args, "group")
        category == Get(call.args, "category")
        sortBy == Get(call.args, "sortBy")
        wantGroup == isGiven[group] /\ group # K("general")
        wantCategory == isGiven[category] /\ category # K("all")
        wantSort == isGiven[sortBy]
        count == (IF wantGroup THEN 1 ELSE 0) + (IF wantCategory THEN 1 ELSE 0)
                 + (IF wantSort THEN 1 ELSE 0)
    IN /\ Len(argv) = 3 + 2 * count
       /\ SubSeq(argv, 1, 2) = <<K("competitions"), K("list")>>
       /\ argv[Len(argv)] = K("-v")
       /\ HasFlag(argv, "--group") <=> wantGroup
       /\ HasFlag(argv, "--category") <=> wantCategory
       /\ HasFlag(argv, "--sort-by") <=> wantSort
       /\ wantGroup => FlagAt(argv, "--group", group) # {}
       /\ wantCategory => FlagAt(argv, "--category", category) # {}
       /\ wantSort => FlagAt(argv, "--sort-by", sortBy) # {}
       /\ \A i \in FlagAt(argv, "--group", group) :
             \A j \in FlagAt(argv, "--category", category) \cup FlagAt(argv, "--sort-by", sortBy) :
                i < j
       /\ \A i \in FlagAt(argv, "--category", category) :
             \A j \in FlagAt(argv, "--sort-by", sortBy) : i < j

CompetitionValues ==
    UNION {{a.group, a.category, a.sortBy} : a \in RequestArgs("list_competitions")}

C9_CompetitionsVector ==
    \A c \in Calls :
        (calls[c].name = "list_competitions" /\ Invoked(calls[c])) =>
            CompetitionsVector(calls[c], [v \in CompetitionValues |-> Present(v)])

\* amended: a parameter given as the empty string adds no flag
C9_CompetitionsVectorNonEmpty ==
    \A c \in Calls :
        (calls[c].name = "list_competitions" /\ Invoked(calls[c])) =>
            CompetitionsVector(calls[c], [v \in CompetitionValues |-> NonEmpty(v)])

C9_Witness ==
    \E c \in Calls :
        /\ calls[c].name = "list_competitions" /\ Invoked(calls[c])
        /\ Get(calls[c].args, "group") = K("entered")
        /\ Get(calls[c].args, "category") = K("all")
        /\ Get(calls[c].args, "sortBy") = K("prize")
        /\ calls[c].argv = <<K("competitions"), K("list"), K("--group"), K("entered"),
                             K("--sort-by"), K("prize"), K("-v")>>

(***************************************************************************)
(* C10.  For list_notebooks, get_notebook_status, search_datasets and      *)
(* list_competitions a successful run returns, when standard output parses *)
(* as JSON, the 2-space pretty-printed serialization of the parsed value,  *)
(* and standard output itself when it does not parse.                      *)
(***************************************************************************)
C10_OutputMapping ==
    \A c \in Calls :
        LET call == calls[c] IN
        (/\ Returned(call) /\ call.name \in ListingTools
         /\ call.outcome # Undefined /\ call.outcome.kind = "ok") =>
            LET p == JSONParse(call.outcome.stdout) IN
            ReplyText(call) = IF p.ok THEN JSONStringify2(p.v) ELSE call.outcome.stdout
(***************************************************************************)
(* C11.  What a call returns and what it changes on disk do not depend on  *)
(* the standard error of its process: for two ends of the process with the *)
(* same exit status and the same standard output, the handler goes on in   *)
(* the same way.  The first formula is the statement for every exit        *)
(* status; the second is the statement for a process that exits with       *)
(* status 0, and for one that fails it keeps what does hold: an "Error: "  *)
(* result and the same position, log and directories either way.           *)
(***************************************************************************)
\* the outcomes with the exit status and the standard output of o
OtherStderr(o) ==
    {[o EXCEPT !.stderr = e] : e \in StderrSamples} \cap ExecOutcomes

\* everything the handler goes on with, the raw outcome left aside
Observable(call) == [call EXCEPT !.outcome = Undefined]

\* the same, the texts of the error left aside
Effects(call) ==
    [call EXCEPT !.outcome = Undefined, !.reply = <<>>, !.thrown = <<>>]

C11_ResultIndependentOfStderr ==
    \A c \in Calls :
        LET call == calls[c] IN
        call.pc = "exec" =>
            \A o1 \in ExecOutcomes : \A o2 \in OtherStderr(o1) :
                Observable(AfterProcess(call, o1)) = Observable(AfterProcess(call, o2))

C11_ResultIndependentOfStderrOnSuccess ==
    \A c \in Calls :
        LET call == calls[c] IN
        call.pc = "exec" =>
            \A o1 \in ExecOutcomes : \A o2 \in OtherStderr(o1) :
                LET a == AfterProcess(call, o1)
                    b == AfterProcess(call, o2)
                IN /\ o1.kind = "ok" => Observable(a) = Observable(b)
                   /\ Effects(a) = Effects(b)
                   /\ o1.kind # "ok" =>
                         /\ Returned(a) /\ StartsWithError(ReplyText(a))
                         /\ Returned(b) /\ StartsWithError(ReplyText(b))

\* a call has returned the output of a process that also wrote warnings
C11_Witness ==
    \E c \in Calls :
        LET call == calls[c] IN
        /\ Returned(call)
        /\ call.outcome # Undefined
        /\ call.outcome.kind = "ok"
        /\ Len(call.outcome.stderr) > 0
        /\ ~StartsWithError(ReplyText(call))

(***************************************************************************)
(* C12.  auth_check never starts the external process, does not fail when  *)
(* it has a parameters object, and never returns a text that begins with   *)
(* "Error:".  When the credential                                          *)
(* file is absent it returns the guidance text, which names                *)
(* https://www.kaggle.com/account; when the file holds {"username": U} and *)
(* has been read, the text it returns contains U.                          *)
(***************************************************************************)
Contains(text, part) ==
    \E i \in 1..(Len(text) - Len(part) + 1) :
        SubSeq(text, i, i + Len(part) - 1) = part

AccountUrl == <<"https://www.kaggle.com/account">>

\* the data is {"username":"U"} for a name U
HoldsUsername(data) ==
    /\ Len(data) = 9
    /\ SubSeq(data, 1, 6) = <<"{", Quote, "username", Quote, ":", Quote>>
    /\ SubSeq(data, 8, 9) = <<Quote, "}">>

ReadCredentials(call) ==
    \E i \in DOMAIN call.log : call.log[i] = [op |-> "readFile", path |-> CredentialPath]

C12_AuthCheckReportsLocally ==
    \A c \in Calls :
        LET call == calls[c] IN
        call.name = "auth_check" =>
            /\ ~Invoked(call)
            /\ HasArgs(call) => call.pc # "failed"
            /\ call.outcome = Undefined
            /\ Returned(call) =>
                  /\ ~StartsWithError(ReplyText(call))
                  /\ ~FileExists(CredentialPath) =>
                        /\ ReplyText(call) = CredentialsNotFound
                        /\ Contains(ReplyText(call), AccountUrl)
                  /\ ~ReadCredentials(call) => Contains(ReplyText(call), AccountUrl)
                  /\ (ReadCredentials(call) /\ HoldsUsername(files[CredentialPath])) =>
                        Contains(ReplyText(call), <<files[CredentialPath][7]>>)

\* auth_check has read {"username": "alice"} and returned a text with alice
C12_Witness ==
    \E c \in Calls :
        LET call == calls[c] IN
        /\ call.name = "auth_check"
        /\ Returned(call)
        /\ ReadCredentials(call)
        /\ Contains(ReplyText(call), <<"alice">>)

(***************************************************************************)
(* C13.  auth_check reads .kaggle/kaggle.json of the home directory unless *)
(* KAGGLE_CONFIG_DIR is set, and then it reads kaggle.json of the          *)
(* directory the variable names: with a valid credential file there and    *)
(* none in the home directory, auth_check reports the credentials as found *)
(* for the user of that file.                                              *)
(***************************************************************************)
ExpectedCredentialPath ==
    IF Truthy(env.KAGGLE_CONFIG_DIR)
    THEN PathJoin(env.KAGGLE_CONFIG_DIR.s, CredentialFile)
    ELSE CredentialPath

C13_OverrideHonoured ==
    \A c \in Calls :
        LET call == calls[c] IN
        (call.name = "auth_check" /\ Returned(call)) =>
            /\ \A i \in DOMAIN call.log :
                  call.log[i].op = "readFile" => call.log[i].path = ExpectedCredentialPath
            /\ (/\ Truthy(env.KAGGLE_CONFIG_DIR)
                /\ FileExists(ExpectedCredentialPath)
                /\ HoldsUsername(files[ExpectedCredentialPath])
                /\ ~FileExists(CredentialPath)) =>
                  /\ ReplyText(call) # CredentialsNotFound
                  /\ Contains(ReplyText(call), <<files[ExpectedCredentialPath][7]>>)

(***************************************************************************)
(* C14.  When create_notebook with a truthy saveLocally returns a success  *)
(* result, the directory P of localSavePath (./kaggle-notebook when it is  *)
(* not given) exists and holds notebook.ipynb and notebook-metadata.json   *)
(* with the data that was staged; P was created and the two copies were    *)
(* made after the push had ended and before the staging directory was      *)
(* removed.                                                                *)
(***************************************************************************)
SavePath(call) == ToStr(OrElse(Get(call.args, "localSavePath"), DefaultNotebookDir))

SavedLocally(call) ==
    /\ call.name = "create_notebook"
    /\ Returned(call)
    /\ ~StartsWithError(ReplyText(call))
    /\ Truthy(Get(call.args, "saveLocally"))

C14_LocalCopiesBetweenPushAndCleanup ==
    \A c \in Calls :
        LET call == calls[c]
            P == SavePath(call)
        IN /\ SavedLocally(call) =>
                /\ P \in dirs
                /\ FileExists(PathJoin(P, NotebookFile))
                /\ FileExists(PathJoin(P, MetadataFile))
                /\ files[PathJoin(P, NotebookFile)] = call.notebook
                /\ files[PathJoin(P, MetadataFile)] = call.metadata
                /\ call.log =
                     << [op |-> "mkdtemp", dir |-> call.tempDir],
                        [op |-> "writeFile", path |-> PathJoin(call.tempDir, NotebookFile)],
                        [op |-> "writeFile", path |-> PathJoin(call.tempDir, MetadataFile)],
                        [op |-> "exec", argv |-> CreateNotebookArgv(call.tempDir)],
                        [op |-> "mkdir", dir |-> P],
                        [op |-> "copyFile", path |-> PathJoin(P, NotebookFile)],
                        [op |-> "copyFile", path |-> PathJoin(P, MetadataFile)],
                        [op |-> "rm", dir |-> call.tempDir] >>
           /\ call.pc \in {"mkdirLocal", "copyNotebook", "copyMetadata"} =>
                /\ call.outcome # Undefined
                /\ call.outcome.kind = "ok"
                /\ call.tempDir \in dirs
                /\ call.dest = P

\* a successful create_notebook has saved its pair into a directory that
\* did not exist before
C14_Witness ==
    \E c \in Calls :
        /\ SavedLocally(calls[c])
        /\ SavePath(calls[c]) = ToStr(DefaultNotebookDir)
        /\ FileExists(PathJoin(SavePath(calls[c]), MetadataFile))

(***************************************************************************)
(* C15.  save_notebook_metadata and pull_notebook both start               *)
(* [kernels, pull, <notebookSlug>, -p, <localPath>], the path being        *)
(* ./kaggle-notebook when none is given.  save_notebook_metadata appends   *)
(* --metadata exactly when includeNotebook is false; pull_notebook appends *)
(* it exactly when metadata is not false.  With the optional parameters    *)
(* absent the first runs without the flag and the second with it.          *)
(***************************************************************************)
PullVector(call) ==
    <<K("kernels"), K("pull"), Get(call.args, "notebookSlug"), K("-p"),
      IF Truthy(Get(call.args, "localPath"))
      THEN Get(call.args, "localPath") ELSE K("./kaggle-notebook")>>

C15_MetadataFlag ==
    \A c \in Calls :
        LET call == calls[c] IN
        /\ call.name = "save_notebook_metadata" =>
              \A i \in ExecStarts(call) :
                 call.log[i].argv =
                    IF Get(call.args, "includeNotebook") = JBool(FALSE)
                    THEN Append(PullVector(call), K("--metadata"))
                    ELSE PullVector(call)
        /\ call.name = "pull_notebook" =>
              \A i \in ExecStarts(call) :
                 call.log[i].argv =
                    IF Get(call.args, "metadata") # JBool(FALSE)
                    THEN Append(PullVector(call), K("--metadata"))
                    ELSE PullVector(call)

\* pull_notebook has started the process with its optional parameters
\* absent, and the flag is there
C15_Witness ==
    \E c \in Calls :
        LET call == calls[c] IN
        /\ call.pc = "exec"
        /\ call.name = "pull_notebook"
        /\ Get(call.args, "localPath") = Undefined
        /\ Get(call.args, "metadata") = Undefined
        /\ HasFlag(call.argv, "--metadata")

(***************************************************************************)
(* C16.  A tool call starts the external process at most once, and a call  *)
(* that started it returns only after the process has ended.  auth_check   *)
(* and the calls that fail a check of their parameters start none.  A      *)
(* failed process is not started again: the call returns its error.        *)
(***************************************************************************)
ValidationMessages ==
    {"No arguments provided", "Unknown tool: ",
     "notebookSlug is required when mode is 'slug'",
     "localPath is required when mode is 'local'", "Invalid mode: ", MetadataFile}

FailedValidation(call) ==
    Len(call.thrown) > 0 /\ call.thrown[1] \in ValidationMessages

C16_AtMostOneProcess ==
    \A c \in Calls :
        LET call == calls[c] IN
        /\ Cardinality(ExecStarts(call)) <= 1
        /\ call.pc = "exec" <=> (Invoked(call) /\ call.outcome = Undefined)
        /\ (Returned(call) /\ Invoked(call)) => call.outcome # Undefined
        /\ call.outcome # Undefined => Invoked(call)
        /\ call.name = "auth_check" => ~Invoked(call)
        /\ FailedValidation(call) => ~Invoked(call)
        /\ (call.outcome # Undefined /\ call.outcome.kind # "ok") =>
              /\ Returned(call)
              /\ IsKaggleFailure(ReplyText(call))
              /\ Cardinality(ExecStarts(call)) = 1

\* a call whose process failed has returned, having started it once
C16_Witness ==
    \E c \in Calls :
        LET call == calls[c] IN
        /\ Returned(call)
        /\ call.outcome # Undefined
        /\ call.outcome.kind = "exit"
        /\ Cardinality(ExecStarts(call)) = 1

(***************************************************************************)
(* C18.  download_notebook_output, save_notebook_metadata and              *)
(* pull_notebook create their target directory (./kaggle-outputs,          *)
(* ./kaggle-notebook and ./kaggle-notebook when no path is given) before   *)
(* they start the process, so the directory exists while it runs.  When    *)
(* the directory cannot be created the process is not started and the      *)
(* result is an "Error: " text.                                            *)
(***************************************************************************)
TargetTools == {"download_notebook_output", "save_notebook_metadata", "pull_notebook"}

TargetDir(call) ==
    LET given == IF call.name = "download_notebook_output"
                 THEN Get(call.args, "outputPath") ELSE Get(call.args, "localPath")
    IN IF Truthy(given) THEN ToStr(given)
       ELSE IF call.name = "download_notebook_output"
            THEN <<"./kaggle-outputs">> ELSE <<"./kaggle-notebook">>

MadeTarget(call, upto) ==
    \E j \in 1..(upto - 1) : call.log[j] = [op |-> "mkdir", dir |-> TargetDir(call)]

C18_TargetCreatedFirst ==
    \A c \in Calls :
        LET call == calls[c] IN
        (call.name \in TargetTools /\ HasArgs(call)) =>
            /\ \A i \in ExecStarts(call) : MadeTarget(call, i)
            /\ call.pc = "exec" => TargetDir(call) \in dirs
            /\ (Returned(call) /\ ~MadeTarget(call, Len(call.log) + 1)) =>
                  /\ ~Invoked(call)
                  /\ FsFailed(call)
                  /\ StartsWithError(ReplyText(call))

\* the download runs in the default directory, which the call has created
C18_Witness ==
    \E c \in Calls :
        LET call == calls[c] IN
        /\ call.name = "download_notebook_output"
        /\ call.pc = "exec"
        /\ Get(call.args, "outputPath") = Undefined
        /\ <<"./kaggle-outputs">> \in dirs

(***************************************************************************)
(* C20.  The success text of create_notebook, download_notebook_output,    *)
(* push_notebook, save_notebook_metadata and pull_notebook is the success  *)
(* message, a newline and the output of the process: standard output as    *)
(* it is when it is not JSON, and the parsed value serialized as JSON      *)
(* again (indented or compact; a string also as its characters) when it is.*)
(* create_notebook may add where it saved the files.                       *)
(***************************************************************************)
PrefixingTools ==
    {"create_notebook", "download_notebook_output", "push_notebook",
     "save_notebook_metadata", "pull_notebook"}

\* JSON.stringify(v) of the value a sample parses to: the sample without its
\* white space
Compact(text) == SelectSeq(text, LAMBDA tok : tok \notin WhiteSpace)

OutputTexts(stdout) ==
    LET p == JSONParse(stdout) IN
    IF p.ok
    THEN {JSONStringify2(p.v), Compact(stdout)}
         \cup (IF IsString(p.v) THEN {p.v.s} ELSE {})
    ELSE {stdout}

IsPrefixOf(part, text) ==
    Len(part) <= Len(text) /\ SubSeq(text, 1, Len(part)) = part

C20_SuccessTextShowsOutput ==
    \A c \in Calls :
        LET call == calls[c] IN
        (/\ Returned(call)
         /\ call.name \in PrefixingTools
         /\ call.outcome # Undefined
         /\ ~StartsWithError(ReplyText(call))) =>
            \E out \in OutputTexts(call.outcome.stdout) :
                LET expected == SuccessMessage(call) \o <<"\n">> \o out IN
                IF call.name = "create_notebook"
                THEN IsPrefixOf(expected, ReplyText(call))
                ELSE ReplyText(call) = expected

(***************************************************************************)
(* C17.  Tool invocations are strictly sequential: a request that arrives  *)
(* while an earlier call waits for its process does not start its work     *)
(* before that call has returned, so no two create_notebook calls are      *)
(* between the creation and the removal of their staging directories at    *)
(* the same time.                                                          *)
(***************************************************************************)
\* the call has created its staging directory and has not returned
InWindow(call) ==
    /\ call.name = "create_notebook"
    /\ call.tempDir # <<>>
    /\ call.pc \notin {"idle", "returned", "failed"}

C17_WindowsNeverOverlap ==
    \A c, d \in Calls :
        (c # d /\ calls[c].pc = "exec") => ~InWindow(calls[d])

(***************************************************************************)
(* C19.  The id create_notebook writes into the metadata descriptor is     *)
(* unique per call: two calls of the same server, one after the other or   *)
(* overlapping, stage metadata with different ids.                         *)
(***************************************************************************)
Staged(call) == call.name = "create_notebook" /\ call.metadata # Undefined

C19_IdsUnique ==
    \A c, d \in Calls :
        (c # d /\ Staged(calls[c]) /\ Staged(calls[d])) =>
            calls[c].metadata.id # calls[d].metadata.id

(***************************************************************************)
(* C21.  create_notebook is all-or-nothing with respect to localSavePath:  *)
(* a call that returns an "Error: " result has written nothing under       *)
(* localSavePath, and a call that returns success with a truthy            *)
(* saveLocally has written both files of its pair there, so the directory  *)
(* never gets only one of the two files from a call.                       *)
(***************************************************************************)
\* the files this call has copied into its save directory
CopiedBy(call) ==
    {call.log[i].path : i \in {j \in DOMAIN call.log : call.log[j].op = "copyFile"}}

C21_LocalSaveAllOrNothing ==
    \A c \in Calls :
        LET call == calls[c]
            P == SavePath(call)
        IN (call.name = "create_notebook" /\ Returned(call)) =>
              /\ StartsWithError(ReplyText(call)) => CopiedBy(call) = {}
              /\ SavedLocally(call) =>
                    CopiedBy(call) = {PathJoin(P, NotebookFile), PathJoin(P, MetadataFile)}
              /\ Cardinality(CopiedBy(call)) # 1

(***************************************************************************)
(* C22.  Under any interleaving of create_notebook calls each call stages  *)
(* into a directory of its own, created for it: while a call is between    *)
(* the creation of its staging directory and its removal, no other call    *)
(* holds that directory, the directory exists, and it holds what this call *)
(* has written and nothing else; while the push runs that is exactly this  *)
(* call's notebook.ipynb and notebook-metadata.json.  So the cleanup of    *)
(* one call never removes or alters the staging directory of another.      *)
(***************************************************************************)
\* the call has a staging directory that it has not removed
HoldsStaging(call) ==
    /\ call.name = "create_notebook"
    /\ call.tempDir # <<>>
    /\ \A i \in DOMAIN call.log : call.log[i].op # "rm"

\* the files that exist in a directory
FilesIn(dir) == {p \in DOMAIN files : p[1] = dir}

\* what the call has written into its staging directory so far
StagedBy(call) ==
    (IF call.pc = "writeNotebook" THEN {} ELSE {PathJoin(call.tempDir, NotebookFile)})
    \cup (IF call.pc \in {"writeNotebook", "writeMetadata"}
          THEN {} ELSE {PathJoin(call.tempDir, MetadataFile)})

C22_StagingIsPrivate ==
    \A c \in Calls :
        LET call == calls[c] IN
        /\ \A d \in Calls \ {c} :
              (HoldsStaging(call) /\ HoldsStaging(calls[d])) =>
                  call.tempDir # calls[d].tempDir
        /\ InWindow(call) =>
              /\ call.tempDir \in dirs
              /\ FilesIn(call.tempDir) = StagedBy(call)
              /\ \A p \in FilesIn(call.tempDir) :
                    files[p] = IF p[2] = NotebookFile THEN call.notebook ELSE call.metadata
        /\ call.pc = "exec" =>
              /\ call.argv = <<K("kernels"), K("push"), K("-p"), JStr(call.tempDir)>>
              /\ FilesIn(call.tempDir) =
                    {PathJoin(call.tempDir, NotebookFile), PathJoin(call.tempDir, MetadataFile)}

\* one call has removed its staging directory while the push of another
\* runs on a staging directory that is still whole
C22_Witness ==
    \E c, d \in Calls :
        /\ c # d
        /\ Returned(calls[c])
        /\ \E i \in DOMAIN calls[c].log : calls[c].log[i].op = "rm"
        /\ calls[d].pc = "exec"
        /\ Cardinality(FilesIn(calls[d].tempDir)) = 2

====
